---------------------------- MODULE Spec2Model ----------------------------
(***************************************************************************)
(* Sentinel: the AI gateway (src/ai/client.rs, cache functions of          *)
(* src/ai.rs), the watcher / keyboard / orchestrator threads of           *)
(* src/main.rs, and analizar_arquitectura with extraer_codigo (src/ai.rs), *)
(* es_archivo_padre (src/files.rs) and debe_ignorar (src/config.rs).       *)
(*                                                                         *)
(* Gateway texts (prompts, responses) are sequences of character codes;    *)
(* the texts of the analysis are sequences of tokens.                      *)
(***************************************************************************)
EXTENDS Integers, Sequences, FiniteSets, TLC

\* ------------------------------------------------------------------ bounds
MaxQueries == 3
HashSpace == 7
MaxEvents == 2
MaxLines == 1
MaxTime == 1
MaxAnalisis == 2

\* ------------------------------------------------------------- gateway data
\* Prompts handed to the gateway and response texts a provider may return.
Prompts == { <<1, 2, 1, 1>>, <<2, 1, 1, 1>>, <<1, 1, 1, 1, 1, 1>> }
Responses == { <<7, 7, 7>>, <<8, 8, 8, 8, 8, 8>> }

\* The provider kinds of a configuration (config::AIProvider).
AIProvider == { "Claude", "Gemini", "OpenAI", "Groq", "Ollama", "Kimi", "DeepSeek" }

\* The configured providers, in fallback order; a configuration holds a
\* prefix of this list (possibly none).
AllConfigs ==
    << [name |-> "A", provider |-> "Claude"],
       [name |-> "B", provider |-> "Gemini"],
       [name |-> "C", provider |-> "OpenAI"] >>

\* Ways one provider call fails: send() error, non-2xx status, missing text.
ErrorKinds == { "red", "status", "estructura" }

NoText == << >>
NoProviderError == << "-", "-" >>
NoErr == [tipo |-> "none", ultimo |-> NoProviderError]
ErrorDesconocido == << "desconocido", "-" >>

Ok(res) == [ok |-> TRUE, text |-> res, err |-> NoErr]
Err(tipo, ultimo) == [ok |-> FALSE, text |-> NoText, err |-> [tipo |-> tipo, ultimo |-> ultimo]]
NoResult == [ok |-> FALSE, text |-> NoText, err |-> [tipo |-> "pending", ultimo |-> NoProviderError]]

\* A cache slot without a file.
NoEntry == << 0 >>

VARIABLES
    \* --- configuration (SentinelConfig)
    use_cache, ai_configs,
    \* --- persistent state: cache directory and SentinelStats
    cache_dir, cache, total_tokens_used, total_cost_usd,
    \* --- the gateway query in progress
    gw_pc, prompt, idx, last_error, resultado, llamadas, stdout,
    \* --- observation of the query in progress and of the previous one
    q0, prev, nq,
    \* --- main.rs: shared pause flag, terminal input, watcher channel, clock
    esta_pausado, stdin_buf, typed, rx, ne, now,
    \* --- main.rs: keyboard thread, orchestrator loop, confirmation readers
    kbd, main_pc, job, lectores, canal,
    \* --- observation of what happened to each event and each typed line
    despachos, saltados, efectos, lineas,
    \* --- analizar_arquitectura (ai.rs): the response under analysis, its
    \* --- classification and suggestion, SentinelStats counters and file
    an_pc, respuesta, dictamen, sugerencia, stats, disco, na,
    \* --- observation of each commit confirmation: its answer and git commands
    confirmaciones,
    \* --- observation of limpiar_cache: the result of its last call
    limpieza,
    \* --- the threads of main.rs that a panic has ended
    caidos,
    \* --- environment: the files of the cache directory cannot be read
    cache_ilegible,
    \* --- a pure function under evaluation: its call and its result
    entrada, salida

gwVars == << use_cache, ai_configs, cache_dir, cache, total_tokens_used,
             total_cost_usd, gw_pc, prompt, idx, last_error, resultado,
             llamadas, stdout, q0, prev, nq >>

mainVars == << esta_pausado, stdin_buf, typed, rx, ne, now, kbd,
               main_pc, job, lectores, canal, despachos, saltados, efectos, lineas >>

anVars == << an_pc, respuesta, dictamen, sugerencia, stats, disco, na >>

fnVars == << entrada, salida >>

vars == << gwVars, mainVars, anVars, confirmaciones, limpieza, caidos,
           cache_ilegible, fnVars >>

\* ------------------------------------------------------------------- cache
RECURSIVE HashFrom(_, _)
HashFrom(h, s) ==
    IF s = << >> THEN h
    ELSE HashFrom((h * 31 + Head(s)) % HashSpace, Tail(s))

\* obtener_cache_path: the file <project>/.sentinel/cache/<hash>.cache.
obtener_cache_path(p) == HashFrom(0, p)

HashValues == 0 .. (HashSpace - 1)

\* A lookup that never finds the file.
intentar_leer_cache_sin_archivo(p) == NoEntry

\* intentar_leer_cache: fs::read_to_string(path).ok(), None when there is no
\* file and when the file cannot be read.
intentar_leer_cache(p) ==
    IF cache_ilegible THEN NoEntry ELSE cache[obtener_cache_path(p)]

\* A save that writes nothing.
guardar_en_cache_sin_escribir(p, res) == cache

\* guardar_en_cache, when its writes succeed.
guardar_en_cache(p, res) == [cache EXCEPT ![obtener_cache_path(p)] = res]

\* ----------------------------------------------------------- consultar_ia
\* An estimate that divides the sum of the two lengths.
Tokens_suma(p, res) == (Len(res) + Len(p)) \div 4

\* tokens = res.len() / 4 + prompt_len / 4
Tokens(p, res) == (Len(res) \div 4) + (Len(p) \div 4)

\* Stats that count a failed call too.
StatsTrasLlamada_sin_condicion(exito, used, p, res) == used + Tokens(p, res)

\* Stats after one provider call: changed only when the call returned Ok.
\* Cost is kept in units of 1e-5 USD (0.01 USD per 1000 tokens).
StatsTrasLlamada(exito, used, p, res) ==
    IF exito THEN used + Tokens(p, res) ELSE used

\* ------------------------------------------------- consultar_ia_con_fallback
\* A loop that keeps the first error.
NuevoLastError_primero(anterior, e) ==
    IF anterior = << "desconocido", "-" >> THEN e ELSE anterior

\* last_error = e
NuevoLastError(anterior, e) == e

\* One printed line: what it says, the model it names, the other model it
\* names (or "-"), and the error it shows (or NoProviderError).
Linea(tag, modelo, otro, e) == [tag |-> tag, modelo |-> modelo, otro |-> otro, error |-> e]

\* println!("   ❌ Error en '{}': {}", config.name, e)
ReportarError(out, nombre, e) == Append(out, Linea("error", nombre, "-", e))

\* println!("⚠️  El modelo '{}' falló. Intentando con ... '{}'")
AvisoFallback(out, i) ==
    IF i > 1
    THEN Append(out, Linea("fallback", ai_configs[i - 1].name, ai_configs[i].name, NoProviderError))
    ELSE out

\* println!("   ✅ El modelo '{}' respondió correctamente.")
AvisoExito(out, i) ==
    IF i > 1
    THEN Append(out, Linea("ok", ai_configs[i].name, "-", NoProviderError))
    ELSE out

\* The adapter consultar_ia dispatches to; its label is part of the error text.
Adaptador(provider) ==
    CASE provider = "Claude" -> "Claude"
      [] provider = "Gemini" -> "Gemini"
      [] OTHER -> "API Compatible"

\* The error of a failed call of kind k to configuration c.
ErrorDe(k, c) == << k, Adaptador(c.provider) >>

\* A loop that skips the provider after the failed one.
Siguiente_salta(i) == i + 2

\* The index the loop visits after provider i failed.
Siguiente(i) == i + 1

\* A gateway that uses the cache whatever the configuration says.
UsaCache_siempre(uc) == TRUE

UsaCache(uc) == uc

\* ------------------------------------------------------------ main.rs data
\* File names, as their dot-separated segments.
UsersService == << "users", "service", "ts" >>
Helper == << "helper", "ts" >>
UsersSpec == << "users", "spec", "ts" >>
UsersSuggested == << "users", "service", "ts", "suggested" >>
UsersTest == << "users", "test", "ts" >>
\* A file name that is not valid UTF-8 (a Latin-1 byte in its stem).
SinUtf8 == << "no_utf8", "ts" >>
Paths == { UsersService, Helper, UsersSpec, UsersSuggested }

EventKinds == { "Modify", "Create" }

\* format!("test/{}/{}.spec.ts", base_name, base_name), with
\* base_name = file_name.split('.').next()
TestRelPath(file_name) == << "test", Head(file_name), Head(file_name), "spec", "ts" >>

\* The test files of the project on disk.
DiscoTests == { << "test", "users", "users", "spec", "ts" >> }

\* A gate that lets every path through.
SinTest_nunca(file_name) == FALSE

\* !project_path.join(&test_rel_path).exists()
SinTest(file_name) == TestRelPath(file_name) \notin DiscoTests

\* path.contains(".spec.ts") / path.contains(".suggested")
ContieneSpecTs(f) == \E j \in 2 .. (Len(f) - 1) : f[j] = "spec" /\ f[j + 1] = "ts"
ContieneSuggested(f) == \E j \in 2 .. Len(f) : f[j] = "suggested"

\* path.to_str(): None when the path is not valid UTF-8.
EsUtf8(f) == \A j \in 1 .. Len(f) : f[j] # "no_utf8"

\* path.to_str().unwrap() in the callback's filter: it is evaluated, and
\* panics on None, once the event is a Modify of a path with extension ts.
WatcherPanics(kind, f) ==
    /\ kind = "Modify"
    /\ Len(f) >= 2 /\ f[Len(f)] = "ts"
    /\ ~EsUtf8(f)

\* A send that drops what the channel still holds.
Encolar_unico(q, ev) == << ev >>

\* tx.send(path): the event joins the end of the channel.
Encolar(q, ev) == Append(q, ev)

\* The watcher callback's filter.
WatcherAcepta(kind, f) ==
    /\ kind = "Modify"
    /\ Len(f) >= 2 /\ f[Len(f)] = "ts"
    /\ ~ContieneSpecTs(f)
    /\ ~ContieneSuggested(f)

\* Lines the user may type, and input.trim().to_lowercase().
Lines == { "p", "r", "S", "y" }
Normalizar(l) == IF l = "S" THEN "s" ELSE l

\* The threads that read stdin.
Teclado == << "teclado", 0 >>
Principal == << "main", 0 >>
Lector(k) == << "lector", k >>

NoJob == [id |-> 0, path |-> << >>, t |-> 0, veredicto |-> "-", tests |-> "-"]

\* What the spawn of git log gives the daily report, and what that of
\* npm run test gives the orchestrator loop.
Gits == { "commits", "vacio", "sin_git" }
Npms == { "exito", "fallo", "sin_proceso" }

\* The threads and terminal of main.rs before the first event.
MainIdle ==
    /\ esta_pausado = FALSE
    /\ stdin_buf = << >>
    /\ typed = 0
    /\ rx = << >>
    /\ ne = 0
    /\ now = 0
    /\ kbd = "read"
    /\ main_pc = "recv"
    /\ job = NoJob
    /\ lectores = { }
    /\ canal = << >>
    /\ despachos = { }
    /\ saltados = { }
    /\ efectos = { }
    /\ lineas = { }

\* ------------------------------------------------------- ai.rs: text data
\* Response texts of the analysis are sequences of tokens: single characters,
\* the code fence (three backquotes) and the words of language tags.
Fence == "fence"
Marcador == << "C", "R", "I", "T", "I", "C", "O" >>

\* char::is_whitespace on the tokens in use.
EsEspacio(c) == c \in { " ", "\n" }

\* An upper-casing that leaves every token as it is.
Mayus_sin_cambio(c) == c

\* to_uppercase, token by token.
Mayus(c) ==
    CASE c = "c" -> "C"
      [] c = "r" -> "R"
      [] c = "i" -> "I"
      [] c = "t" -> "T"
      [] c = "o" -> "O"
      [] c = "x" -> "X"
      [] c = "typescript" -> "TYPESCRIPT"
      [] c = "java" -> "JAVA"
      [] c = "script" -> "SCRIPT"
      [] c = "go" -> "GO"
      [] c = "lang" -> "LANG"
      [] c = "json" -> "JSON"
      [] c = "rust" -> "RUST"
      [] OTHER -> c

ToUpper(s) == [j \in 1 .. Len(s) |-> Mayus(s[j])]

RECURSIVE TrimStart(_)
TrimStart(s) ==
    IF s # << >> /\ EsEspacio(Head(s)) THEN TrimStart(Tail(s)) ELSE s

RECURSIVE TrimEnd(_)
TrimEnd(s) ==
    IF s # << >> /\ EsEspacio(s[Len(s)]) THEN TrimEnd(SubSeq(s, 1, Len(s) - 1)) ELSE s

\* str::trim
Trim(s) == TrimEnd(TrimStart(s))

\* str::starts_with
StartsWith(s, pre) == Len(s) >= Len(pre) /\ SubSeq(s, 1, Len(pre)) = pre

\* The positions at which aguja occurs in s, and str::find: the first of
\* them, 0 for None.
Apariciones(s, aguja) ==
    { j \in 1 .. (Len(s) - Len(aguja) + 1) : SubSeq(s, j, j + Len(aguja) - 1) = aguja }
Find(s, aguja) ==
    IF Apariciones(s, aguja) = { } THEN 0
    ELSE CHOOSE j \in Apariciones(s, aguja) : \A k \in Apariciones(s, aguja) : j <= k

\* es_critico = respuesta.trim().to_uppercase().starts_with("CRITICO")
EsCritico(texto) == StartsWith(ToUpper(Trim(texto)), Marcador)

\* The language tags extraer_codigo looks for, in its order.
lenguajes ==
    << << "typescript" >>, << "java", "script" >>, << "python" >>, << "php" >>,
       << "go" >>, << "rust" >>, << "java" >>, << "jsx" >>, << "tsx" >>, << "code" >> >>

\* What follows position start + len up to the next fence, trimmed; fallo
\* when no fence follows.
HastaCierre(texto, desde, fallo) ==
    LET resto == SubSeq(texto, desde, Len(texto))
        end == Find(resto, << Fence >>)
    IN  IF end # 0 THEN Trim(SubSeq(resto, 1, end - 1)) ELSE fallo

\* The last attempt of extraer_codigo: any fence at all.
ExtraerGenerico(texto) ==
    LET start == Find(texto, << Fence >>)
    IN  IF start # 0 THEN HastaCierre(texto, start + 1, texto) ELSE texto

\* The loop of extraer_codigo over the language tags, from the k-th on.
RECURSIVE ExtraerDesde(_, _)
ExtraerDesde(texto, k) ==
    IF k > Len(lenguajes) THEN ExtraerGenerico(texto)
    ELSE LET tag == << Fence >> \o lenguajes[k]
             start == Find(texto, tag)
         IN  IF start # 0 /\ Find(SubSeq(texto, start + Len(tag), Len(texto)), << Fence >>) # 0
             THEN HastaCierre(texto, start + Len(tag), texto)
             ELSE ExtraerDesde(texto, k + 1)

extraer_codigo(texto) == ExtraerDesde(texto, 1)

\* -------------------------------------------------- ai.rs: analysis inputs
\* Openings of a response, each with the class the rule "starts with CRITICO
\* after trimming and upper-casing" gives it.
Cuerpos ==
    { [txt |-> Marcador, critico |-> TRUE],
      [txt |-> << "c", "r", "i", "t", "i", "c", "o" >>, critico |-> TRUE],
      [txt |-> << "C", "r", "I", "t", "i", "C", "o" >>, critico |-> TRUE],
      [txt |-> Marcador \o << "X" >>, critico |-> TRUE],
      [txt |-> Marcador \o << " ", "t" >>, critico |-> TRUE],
      [txt |-> << "C", "R", "I", "T", "I", "C" >>, critico |-> FALSE],
      [txt |-> << "X" >> \o Marcador, critico |-> FALSE],
      [txt |-> << "S", "E", "G", "U", "R", "O" >>, critico |-> FALSE],
      [txt |-> << "S", "E", "G", "U", "R", "O", " " >> \o Marcador, critico |-> FALSE],
      [txt |-> << >>, critico |-> FALSE] }

Blancos == { << >>, << " " >>, << "\n", " " >> }

\* Language tags written after an opening fence.
Etiquetas ==
    { << >>, << "typescript" >>, << "java", "script" >>, << "rust" >>,
      << "go" >>, << "go", "lang" >>, << "json" >> }

\* Inner texts of a fenced block, without surrounding whitespace.
Codigos == { << "x" >>, << "x", " ", "x" >>, << "x", "\n", "x" >> }

\* A response without a fence.
CasoSinBloque(antes, cuerpo, cola) ==
    [texto |-> antes \o cuerpo.txt \o cola, critico |-> cuerpo.critico,
     bloques |-> 0, dentro |-> << >>]

\* A response with exactly one fenced block: opening, fence, tag, newline,
\* inner text, newline, fence, closing words.
CasoConBloque(cuerpo, etiqueta, codigo, cola) ==
    [texto |-> cuerpo.txt \o << "\n", Fence >> \o etiqueta \o << "\n" >> \o codigo
                   \o << "\n", Fence >> \o cola,
     critico |-> cuerpo.critico, bloques |-> 1, dentro |-> codigo]

Casos ==
    { CasoSinBloque(antes, cuerpo, cola) :
          antes \in Blancos, cuerpo \in Cuerpos, cola \in Blancos }
        \cup { CasoConBloque(cuerpo, etiqueta, codigo, cola) :
                  cuerpo \in { c \in Cuerpos : Len(c.txt) \in { 0, 6, 7 } },
                  etiqueta \in Etiquetas, codigo \in Codigos,
                  cola \in { << >>, << "\n", "t" >> } }

NoCaso == [texto |-> << >>, critico |-> FALSE, bloques |-> 0, dentro |-> << >>]

\* The prompt of analizar_arquitectura.
PromptAnalisis == << "t", "t", "t", "t", "t", "x" >>

\* SentinelStats as one record: the counters of `stats` and the token and
\* cost totals kept by consultar_ia.
EnMemoria(s, tokens, costo) ==
    [total_analisis |-> s.total_analisis,
     bugs_criticos_evitados |-> s.bugs_criticos_evitados,
     sugerencias_aplicadas |-> s.sugerencias_aplicadas,
     tiempo_estimado_ahorrado_mins |-> s.tiempo_estimado_ahorrado_mins,
     total_tokens_used |-> tokens, total_cost_usd |-> costo]

StatsCero ==
    [total_analisis |-> 0, bugs_criticos_evitados |-> 0, sugerencias_aplicadas |-> 0,
     tiempo_estimado_ahorrado_mins |-> 0]

\* SentinelStats::guardar: the stats file is rewritten wholesale.
guardar(archivo, s) == s

\* Counters that take every analysis for a critical one.
StatsTrasAnalisis_siempre_critico(s, es_critico) ==
    [total_analisis |-> s.total_analisis + 1,
     bugs_criticos_evitados |-> s.bugs_criticos_evitados + 1,
     sugerencias_aplicadas |-> s.sugerencias_aplicadas + 1,
     tiempo_estimado_ahorrado_mins |-> s.tiempo_estimado_ahorrado_mins + 20]

\* The counters after one analysis (ai.rs 541-548).
StatsTrasAnalisis(s, es_critico) ==
    [total_analisis |-> s.total_analisis + 1,
     bugs_criticos_evitados |-> s.bugs_criticos_evitados + (IF es_critico THEN 1 ELSE 0),
     sugerencias_aplicadas |-> s.sugerencias_aplicadas + (IF es_critico THEN 1 ELSE 0),
     tiempo_estimado_ahorrado_mins |->
         s.tiempo_estimado_ahorrado_mins + (IF es_critico THEN 20 ELSE 0)]

\* A flush placed before the counters are incremented.
StatsAlGuardar_antes(antes, despues) == antes

\* The counters that s.guardar writes: the flush is the last statement of the
\* block that increments them (ai.rs 541-550).
StatsAlGuardar(antes, despues) == despues

\* analizar_arquitectura before its first call.
AnIdle ==
    /\ an_pc = "watching"
    /\ respuesta = NoCaso
    /\ dictamen = "ninguno"
    /\ sugerencia = << >>
    /\ stats = StatsCero
    /\ disco = EnMemoria(StatsCero, 0, 0)
    /\ na = 0
    /\ confirmaciones = { }
    /\ limpieza = "ninguna"
    /\ caidos = { }

\* --------------------------------------------------------------- config.rs
\* The allow-list and the ignored substrings of the configuration of a
\* TypeScript project. Paths are sequences of segments, compared whole.
file_extensions == { "ts" }
ignore_patterns ==
    { "node_modules", "dist", ".git", "build", ".next", "target", "vendor",
      "__pycache__" }

\* path_str.contains(".spec.") / contains(".test."): a segment between two dots.
ContieneEntrePuntos(f, seg) == \E j \in 2 .. (Len(f) - 1) : f[j] = seg

\* path_str.contains("_test."): a segment ending in _test before a dot.
ContieneTestBajo(f) == \E j \in 1 .. (Len(f) - 1) : f[j] \in { "_test", "users_test" }

\* SentinelConfig::debe_ignorar (config.rs 138-163); to_str().unwrap_or("")
\* makes a path that is not UTF-8 the empty string, which has no extension.
debe_ignorar(f) ==
    IF ~EsUtf8(f) THEN TRUE
    ELSE IF \/ ContieneEntrePuntos(f, "spec")
            \/ ContieneEntrePuntos(f, "test")
            \/ ContieneTestBajo(f)
            \/ ContieneSuggested(f)
    THEN TRUE
    ELSE IF ~(Len(f) >= 2 /\ f[Len(f)] \in file_extensions)
    THEN TRUE
    ELSE \E j \in 1 .. Len(f) : f[j] \in ignore_patterns

\* ---------------------------------------------------------------- files.rs
\* File names are sequences of the segments between their dots:
\* user-v2.service.ts is << "user-v2", "service", "ts" >>, and .service.ts
\* is << "", "service", "ts" >>. A pattern is the segments after its
\* leading dot.
PARENT_PATTERNS ==
    { << "service", "ts" >>, << "controller", "ts" >>, << "repository", "ts" >>,
      << "module", "ts" >>, << "gateway", "ts" >>, << "guard", "ts" >>,
      << "interceptor", "ts" >>, << "pipe", "ts" >>, << "filter", "ts" >> }

\* A match of the pattern without its leading dot.
EndsWith_sin_punto(name, pat) ==
    /\ Len(name) >= Len(pat)
    /\ SubSeq(name, Len(name) - Len(pat) + 1, Len(name)) = pat

\* file_name.ends_with(pattern): the pattern's dot needs a segment, empty
\* or not, before it.
EndsWith(name, pat) ==
    /\ Len(name) > Len(pat)
    /\ SubSeq(name, Len(name) - Len(pat) + 1, Len(name)) = pat

es_archivo_padre(file_name) ==
    \E pattern \in PARENT_PATTERNS : EndsWith(file_name, pattern)

\* The names the function is applied to: a base, with or without hyphens
\* and dots, followed by an ending, and the endings alone.
Bases ==
    { << "user" >>, << "user-v2" >>, << "call-inbound" >>, << "a", "b" >>, << "" >>,
      << "service" >>, << "user", "service" >> }
Finales ==
    PARENT_PATTERNS \cup
    { << "spec", "ts" >>, << "service", "spec", "ts" >>, << "dto", "ts" >>,
      << "ts" >>, << "service", "tsx" >>, << "services", "ts" >>, << "service" >> }
NombresArchivo == { b \o e : b \in Bases, e \in Finales } \cup Finales

\* PARENT_PRIORITY: the patterns by decreasing priority.
PARENT_PRIORITY ==
    << << "service", "ts" >>, << "controller", "ts" >>, << "repository", "ts" >>,
       << "gateway", "ts" >>, << "module", "ts" >>, << "guard", "ts" >>,
       << "interceptor", "ts" >>, << "pipe", "ts" >>, << "filter", "ts" >> >>

\* The largest number of entries of the changed file's directory.
MaxDir == 3

\* The entries a directory is made of, and those that are directories.
Entradas ==
    { << "users", "service", "ts" >>, << "users", "controller", "ts" >>,
      << "users", "dto", "ts" >>, << "call-inbound", "ts" >>,
      << "users", "service", "spec", "ts" >>, << "call", "module", "ts" >>,
      << "legacy", "service", "ts" >> }
Directorios == { << "legacy", "service", "ts" >> }
is_file(e) == e \notin Directorios

\* A directory as fs::read_dir yields it: its entries, each once, in the
\* order of the file system.
Listados ==
    { l \in UNION { [1..n -> Entradas] : n \in 1..MaxDir } :
        \A i, j \in 1..Len(l) : l[i] = l[j] => i = j }

\* Option<String>.
None == << >>
Some(x) == << x >>

\* file_name.ends_with(".ts") and file_name.contains(".spec.").
TerminaEnTs(n) == Len(n) >= 2 /\ n[Len(n)] = "ts"
ContieneSpec(n) == \E i \in 2..(Len(n) - 1) : n[i] = "spec"

\* PARENT_PRIORITY.iter().position(..).unwrap_or(PARENT_PRIORITY.len()).
Prioridad(n) ==
    IF \E i \in 1..Len(PARENT_PRIORITY) : EndsWith(n, PARENT_PRIORITY[i])
    THEN (CHOOSE i \in 1..Len(PARENT_PRIORITY) :
            /\ EndsWith(n, PARENT_PRIORITY[i])
            /\ \A j \in 1..(i - 1) : ~EndsWith(n, PARENT_PRIORITY[j])) - 1
    ELSE Len(PARENT_PRIORITY)

\* The loop over the entries (files.rs 93-126): an entry is pushed when it
\* is a file, ends in .ts, holds no .spec., is a parent file and has a
\* non-empty base name. The changed path is used for its directory only.
Candidato(e, changed) ==
    /\ is_file(e)
    /\ TerminaEnTs(e) /\ ~ContieneSpec(e)
    /\ es_archivo_padre(e)
    /\ e[1] # ""

\* detectar_archivo_padre(changed_path, _): the base name of the pushed
\* entry of least priority index, the first one in directory order among
\* equals (sort_by_key is stable), None when nothing was pushed.
detectar_archivo_padre(changed, listado) ==
    LET padres == { i \in 1..Len(listado) : Candidato(listado[i], changed) }
    IN  IF padres = { }
        THEN None
        ELSE LET primero == CHOOSE i \in padres :
                     \A j \in padres :
                         \/ Prioridad(listado[i]) < Prioridad(listado[j])
                         \/ Prioridad(listado[i]) = Prioridad(listado[j]) /\ i <= j
             IN  Some(listado[primero][1])

\* ------------------------------------------------------------------- Init
\* The gateway before the first query of a run, for a given configuration
\* and a given content of <project>/.sentinel/cache.
GatewayArranque(uc, configs, dir, archivos) ==
    /\ use_cache = uc
    /\ ai_configs = configs
    /\ cache_dir = dir
    /\ cache = archivos
    /\ total_tokens_used = 0
    /\ total_cost_usd = 0
    /\ gw_pc = "idle"
    /\ prompt = NoText
    /\ idx = 0
    /\ last_error = ErrorDesconocido
    /\ resultado = NoResult
    /\ llamadas = << >>
    /\ stdout = << >>
    /\ q0 = [entry |-> NoEntry, tokens |-> 0, cost |-> 0, wrote |-> FALSE, stored |-> FALSE]
    /\ prev = [valid |-> FALSE, prompt |-> NoText, resultado |-> NoResult,
               llamadas |-> 0, stored |-> FALSE]
    /\ nq = 0

\* The gateway before its first query, for a given configuration, in a
\* project without a cache directory.
GatewayIdle(uc, configs) ==
    GatewayArranque(uc, configs, FALSE, [h \in HashValues |-> NoEntry])

\* No pure function is under evaluation.
NoEntrada == [f |-> "ninguna", arg |-> << >>]
\* A result is a one-element sequence; no result yet is the empty one.
Pendiente == << >>
FnIdle ==
    /\ entrada = NoEntrada
    /\ salida = Pendiente

GatewayInit ==
    /\ \E uc \in BOOLEAN :
         \E n \in 0 .. Len(AllConfigs) : GatewayIdle(uc, SubSeq(AllConfigs, 1, n))
    /\ cache_ilegible = FALSE
    /\ MainIdle
    /\ AnIdle
    /\ FnIdle

\* A cache hit that is accounted like a provider call.
StatsTrasCache_cobra(used, p, res) == used + Tokens(p, res)

\* The counters after the return of a cached response (client.rs 39-42):
\* the early return comes before consultar_ia_con_fallback, the only code
\* that touches the stats.
StatsTrasCache(used, p, res) == used

\* ---------------------------------------------------------------- actions
\* consultar_ia_dinamico, entry: the cache lookup (client.rs 38-43) and, on a
\* miss, the entry of consultar_ia_con_fallback (client.rs 64-70).
BeginQuery(p) ==
    /\ gw_pc = "idle"
    /\ nq < MaxQueries
    /\ nq' = nq + 1
    /\ prompt' = p
    /\ llamadas' = << >>
    /\ stdout' = << >>
    /\ last_error' = ErrorDesconocido
    /\ q0' = [entry |-> cache[obtener_cache_path(p)], tokens |-> total_tokens_used,
              cost |-> total_cost_usd, wrote |-> FALSE,
              stored |-> UsaCache(use_cache) /\ intentar_leer_cache(p) # NoEntry]
    /\ IF UsaCache(use_cache) /\ intentar_leer_cache(p) # NoEntry
       THEN /\ resultado' = Ok(intentar_leer_cache(p))
            /\ gw_pc' = "returned"
            /\ idx' = 0
       ELSE IF ai_configs = << >>
       THEN /\ resultado' = Err("NoConfigs", NoProviderError)
            /\ gw_pc' = "save"
            /\ idx' = 0
       ELSE /\ resultado' = NoResult
            /\ gw_pc' = "fallback"
            /\ idx' = 1
    /\ UNCHANGED mainVars
    /\ UNCHANGED anVars
    /\ UNCHANGED confirmaciones
    /\ UNCHANGED limpieza
    /\ UNCHANGED caidos
    /\ UNCHANGED cache_ilegible
    /\ UNCHANGED fnVars
    /\ total_tokens_used' =
           IF UsaCache(use_cache) /\ intentar_leer_cache(p) # NoEntry
           THEN StatsTrasCache(total_tokens_used, p, intentar_leer_cache(p))
           ELSE total_tokens_used
    /\ total_cost_usd' =
           IF UsaCache(use_cache) /\ intentar_leer_cache(p) # NoEntry
           THEN StatsTrasCache(total_cost_usd, p, intentar_leer_cache(p))
           ELSE total_cost_usd
    /\ UNCHANGED << use_cache, ai_configs, cache_dir, cache, prev >>

\* One iteration of the fallback loop whose provider call returns Ok(res).
AttemptOk(res) ==
    /\ gw_pc = "fallback"
    /\ idx >= 1 /\ idx <= Len(ai_configs)
    /\ llamadas' = Append(llamadas, << ai_configs[idx].name, "ok", res >>)
    /\ stdout' = AvisoExito(AvisoFallback(stdout, idx), idx)
    /\ total_tokens_used' = StatsTrasLlamada(TRUE, total_tokens_used, prompt, res)
    /\ total_cost_usd' = StatsTrasLlamada(TRUE, total_cost_usd, prompt, res)
    /\ resultado' = Ok(res)
    /\ gw_pc' = "save"
    /\ UNCHANGED mainVars
    /\ UNCHANGED anVars
    /\ UNCHANGED confirmaciones
    /\ UNCHANGED limpieza
    /\ UNCHANGED caidos
    /\ UNCHANGED cache_ilegible
    /\ UNCHANGED fnVars
    /\ UNCHANGED << use_cache, ai_configs, cache_dir, cache, prompt, idx,
                    last_error, q0, prev, nq >>

\* One iteration of the fallback loop whose provider call fails with kind k;
\* after the last provider the loop ends and the aggregate error is built.
AttemptErr(k) ==
    /\ gw_pc = "fallback"
    /\ idx >= 1 /\ idx <= Len(ai_configs)
    /\ LET e == ErrorDe(k, ai_configs[idx])
           le == NuevoLastError(last_error, e)
       IN  /\ llamadas' = Append(llamadas, << ai_configs[idx].name, k, NoText >>)
           /\ stdout' = ReportarError(AvisoFallback(stdout, idx), ai_configs[idx].name, e)
           /\ total_tokens_used' = StatsTrasLlamada(FALSE, total_tokens_used, prompt, NoText)
           /\ total_cost_usd' = StatsTrasLlamada(FALSE, total_cost_usd, prompt, NoText)
           /\ last_error' = le
           /\ idx' = Siguiente(idx)
           /\ IF Siguiente(idx) > Len(ai_configs)
              THEN /\ resultado' = Err("AllProvidersFailed", le)
                   /\ gw_pc' = "save"
              ELSE /\ resultado' = resultado
                   /\ gw_pc' = "fallback"
    /\ UNCHANGED mainVars
    /\ UNCHANGED anVars
    /\ UNCHANGED confirmaciones
    /\ UNCHANGED limpieza
    /\ UNCHANGED caidos
    /\ UNCHANGED cache_ilegible
    /\ UNCHANGED fnVars
    /\ UNCHANGED << use_cache, ai_configs, cache_dir, cache, prompt, q0, prev, nq >>

\* A save whose failure becomes the result of the query.
ResultadoTrasGuardar_propaga(r, escrito) ==
    IF escrito THEN r ELSE Err("cache", NoProviderError)

\* let _ = guardar_en_cache(..); resultado: the result of the write is dropped.
ResultadoTrasGuardar(r, escrito) == r

\* consultar_ia_dinamico, step 3 (client.rs 50-54): on success with caching
\* enabled the response is written; a failed write is swallowed (let _ =).
SaveCache(writeOk) ==
    /\ gw_pc = "save"
    /\ IF resultado.ok /\ UsaCache(use_cache) /\ writeOk
       THEN /\ cache' = guardar_en_cache(prompt, resultado.text)
            /\ cache_dir' = TRUE
            /\ q0' = [q0 EXCEPT !.wrote = TRUE, !.stored = TRUE]
       ELSE /\ UNCHANGED << cache, cache_dir, q0 >>
    /\ resultado' = ResultadoTrasGuardar(resultado,
                          ~(resultado.ok /\ UsaCache(use_cache)) \/ writeOk)
    /\ gw_pc' = "returned"
    /\ UNCHANGED mainVars
    /\ UNCHANGED anVars
    /\ UNCHANGED confirmaciones
    /\ UNCHANGED limpieza
    /\ UNCHANGED caidos
    /\ UNCHANGED cache_ilegible
    /\ UNCHANGED fnVars
    /\ UNCHANGED << use_cache, ai_configs, total_tokens_used, total_cost_usd,
                    prompt, idx, last_error, llamadas, stdout, prev, nq >>

\* The query returns `resultado` to its caller.
Return ==
    /\ gw_pc = "returned"
    /\ gw_pc' = "idle"
    /\ prev' = [valid |-> TRUE, prompt |-> prompt, resultado |-> resultado,
                llamadas |-> Len(llamadas), stored |-> q0.stored]
    /\ UNCHANGED mainVars
    /\ UNCHANGED anVars
    /\ UNCHANGED confirmaciones
    /\ UNCHANGED limpieza
    /\ UNCHANGED caidos
    /\ UNCHANGED cache_ilegible
    /\ UNCHANGED fnVars
    /\ UNCHANGED << use_cache, ai_configs, cache_dir, cache, total_tokens_used,
                    total_cost_usd, prompt, idx, last_error, resultado, llamadas,
                    stdout, q0, nq >>

\* A removal that leaves every file in place.
remove_dir_all_nada(c) == c

\* fs::remove_dir_all(&cache_dir): no cache file is left.
remove_dir_all(c) == [h \in HashValues |-> NoEntry]

\* The console's dispatch of a command: the stdin-reading thread matches the
\* line it has read against the command set and runs the command itself, so
\* a command can start whenever that thread is at its read, whatever the
\* orchestrator loop is doing.
ConsolaDespacha == kbd = "read"

\* limpiar_cache (ai.rs 145-157): removes the cache directory when it exists
\* (a failed removal is returned as Err, here with nothing removed) and
\* returns Ok without touching anything when it does not.
LimpiarCache(removeOk) ==
    /\ ConsolaDespacha
    /\ IF cache_dir /\ removeOk
       THEN /\ cache_dir' = FALSE
            /\ cache' = remove_dir_all(cache)
            /\ q0' = [q0 EXCEPT !.stored = FALSE]
            /\ prev' = [prev EXCEPT !.stored = FALSE]
            /\ limpieza' = "ok"
       ELSE /\ UNCHANGED << cache_dir, cache, q0, prev >>
            /\ limpieza' = IF cache_dir THEN "err" ELSE "ok_sin_cache"
    /\ UNCHANGED caidos
    /\ UNCHANGED cache_ilegible
    /\ UNCHANGED fnVars
    /\ UNCHANGED mainVars
    /\ UNCHANGED anVars
    /\ UNCHANGED confirmaciones
    /\ UNCHANGED << use_cache, ai_configs, total_tokens_used, total_cost_usd,
                    gw_pc, prompt, idx, last_error, resultado, llamadas, stdout, nq >>

\* es_archivo_padre(file_name) returns.
EsArchivoPadre ==
    /\ entrada.f = "es_archivo_padre"
    /\ salida = Pendiente
    /\ salida' = << es_archivo_padre(entrada.arg) >>
    /\ UNCHANGED << gwVars, mainVars, anVars, confirmaciones, limpieza, caidos,
                    cache_ilegible, entrada >>

ArchivosInit ==
    /\ GatewayIdle(TRUE, AllConfigs)
    /\ cache_ilegible = FALSE
    /\ MainIdle
    /\ AnIdle
    /\ entrada \in { [f |-> "es_archivo_padre", arg |-> n] : n \in NombresArchivo }
    /\ salida = Pendiente

ArchivosNext == EsArchivoPadre

ArchivosSpec == ArchivosInit /\ [][ArchivosNext]_vars

\* detectar_archivo_padre(changed_path, project_path) returns.
DetectarArchivoPadre ==
    /\ entrada.f = "detectar_archivo_padre"
    /\ salida = Pendiente
    /\ salida' = << detectar_archivo_padre(entrada.arg.changed, entrada.arg.dir) >>
    /\ UNCHANGED << gwVars, mainVars, anVars, confirmaciones, limpieza, caidos,
                    cache_ilegible, entrada >>

\* The function applied to a changed file and the listing of its directory,
\* in which the changed file is a file.
PadresInit ==
    /\ GatewayIdle(TRUE, AllConfigs)
    /\ cache_ilegible = FALSE
    /\ MainIdle
    /\ AnIdle
    /\ entrada \in UNION { { [f |-> "detectar_archivo_padre",
                              arg |-> [changed |-> l[i], dir |-> l]] :
                                i \in { k \in 1..Len(l) : is_file(l[k]) } } :
                            l \in Listados }
    /\ salida = Pendiente

PadresNext == DetectarArchivoPadre

PadresSpec == PadresInit /\ [][PadresNext]_vars

GatewayNext ==
    \/ \E p \in Prompts : BeginQuery(p)
    \/ \E res \in Responses : AttemptOk(res)
    \/ \E k \in ErrorKinds : AttemptErr(k)
    \/ \E w \in BOOLEAN : SaveCache(w)
    \/ Return
    \/ \E removeOk \in BOOLEAN : LimpiarCache(removeOk)

GatewaySpec == GatewayInit /\ [][GatewayNext]_vars

\* The gateway with caching enabled, one or two providers, and a cache
\* directory whose files may be unreadable.
FallosInit ==
    /\ \E n \in 1 .. 2 : GatewayIdle(TRUE, SubSeq(AllConfigs, 1, n))
    /\ cache_ilegible \in BOOLEAN
    /\ MainIdle
    /\ AnIdle
    /\ FnIdle

FallosSpec == FallosInit /\ [][GatewayNext]_vars

\* The cache directory a run finds, left by earlier runs of the program:
\* none, or one file written by guardar_en_cache for a prompt.
CachesPrevios ==
    { [h \in HashValues |-> NoEntry] } \cup
    { [h \in HashValues |-> IF h = obtener_cache_path(p) THEN r ELSE NoEntry] :
        p \in Prompts, r \in Responses }

\* A run with caching disabled in the configuration, over any such cache
\* directory.
SinCacheInit ==
    /\ \E n \in 0 .. 2 : \E c \in CachesPrevios :
         GatewayArranque(FALSE, SubSeq(AllConfigs, 1, n),
                         c # [h \in HashValues |-> NoEntry], c)
    /\ cache_ilegible = FALSE
    /\ MainIdle
    /\ AnIdle
    /\ FnIdle

SinCacheSpec == SinCacheInit /\ [][GatewayNext]_vars

\* --------------------------------------------------------- main.rs actions
Init ==
    /\ GatewayIdle(TRUE, AllConfigs)
    /\ cache_ilegible = FALSE
    /\ MainIdle
    /\ AnIdle
    /\ FnIdle

\* The user types a line on the terminal.
Teclear(l, tope) ==
    /\ typed < tope
    /\ typed' = typed + 1
    /\ stdin_buf' = Append(stdin_buf, l)
    /\ UNCHANGED << esta_pausado, rx, ne, now, kbd, main_pc, job,
                    lectores, canal, despachos, saltados, efectos, lineas >>
    /\ UNCHANGED gwVars
    /\ UNCHANGED anVars
    /\ UNCHANGED confirmaciones
    /\ UNCHANGED limpieza
    /\ UNCHANGED caidos
    /\ UNCHANGED cache_ilegible
    /\ UNCHANGED fnVars

\* The user types any line of the console.
TypeLine(l) == Teclear(l, MaxLines)

\* Time passes: the next quiescence window (500 ms) begins.
Tick ==
    /\ now < MaxTime
    /\ now' = now + 1
    /\ UNCHANGED << esta_pausado, stdin_buf, typed, rx, ne, kbd,
                    main_pc, job, lectores, canal, despachos, saltados, efectos,
                    lineas >>
    /\ UNCHANGED gwVars
    /\ UNCHANGED anVars
    /\ UNCHANGED confirmaciones
    /\ UNCHANGED limpieza
    /\ UNCHANGED caidos
    /\ UNCHANGED cache_ilegible
    /\ UNCHANGED fnVars

\* The watcher callback (main.rs 555-567): a raw event of the watched tree.
FsEvent(kind, f) ==
    /\ "watcher" \notin caidos
    /\ IF WatcherPanics(kind, f)
       THEN /\ caidos' = caidos \cup { "watcher" }
            /\ UNCHANGED << ne, rx >>
       ELSE IF WatcherAcepta(kind, f)
       THEN /\ ne < MaxEvents
            /\ ne' = ne + 1
            /\ rx' = Encolar(rx, [id |-> ne + 1, path |-> f, t |-> now])
            /\ UNCHANGED caidos
       ELSE UNCHANGED << ne, rx, caidos >>
    /\ UNCHANGED << esta_pausado, stdin_buf, typed, now, kbd,
                    main_pc, job, lectores, canal, despachos, saltados, efectos,
                    lineas >>
    /\ UNCHANGED gwVars
    /\ UNCHANGED anVars
    /\ UNCHANGED confirmaciones
    /\ UNCHANGED limpieza
    /\ UNCHANGED cache_ilegible
    /\ UNCHANGED fnVars

\* The threads that are in, or on their way into, io::stdin().read_line().
\* read_line locks stdin for the whole call, and the lock is not fair: the
\* next line goes to any one of them.
LeyendoStdin ==
    (IF kbd = "read" THEN { Teclado } ELSE { })
        \cup (IF main_pc = "ask_ayuda" THEN { Principal } ELSE { })
        \cup { Lector(k) : k \in lectores }

\* What turns a typed line into an answer instead of a command: a reader
\* started by a confirmation is waiting for the next line of stdin.
AwaitingInput == lectores # { } \/ main_pc = "ask_ayuda"

\* The record kept of a line read from stdin.
Leida(por, efecto) ==
    [esperando |-> AwaitingInput, por |-> por, efecto |-> efecto]

\* obtener_resumen_git (main.rs 270-283): the commits of today, the empty
\* string when there are none, and .expect() panics when git cannot be run.
obtener_resumen_git(git) == IF git = "sin_git" THEN "panic" ELSE git

\* The keyboard thread (main.rs 538-552) reads a line and runs it as a
\* command: "p" toggles the pause flag, "r" generates the daily report (no
\* commits today: it returns at once), anything else is ignored.
TecladoLee(git) ==
    /\ Teclado \in LeyendoStdin
    /\ stdin_buf # << >>
    /\ LET linea == Head(stdin_buf)
           cmd == Normalizar(linea)
       IN  /\ stdin_buf' = Tail(stdin_buf)
           /\ esta_pausado' = IF cmd = "p" THEN ~esta_pausado ELSE esta_pausado
           /\ kbd' = IF cmd # "r" \/ obtener_resumen_git(git) = "vacio" THEN "read"
                     ELSE IF obtener_resumen_git(git) = "panic" THEN "caido"
                     ELSE "reporte"
           /\ caidos' = IF cmd = "r" /\ obtener_resumen_git(git) = "panic"
                        THEN caidos \cup { "teclado" } ELSE caidos
           /\ lineas' = lineas \cup { Leida("teclado", "comando") }
    /\ UNCHANGED << typed, rx, ne, now, main_pc, job, lectores, canal,
                    despachos, saltados, efectos >>
    /\ UNCHANGED gwVars
    /\ UNCHANGED anVars
    /\ UNCHANGED confirmaciones
    /\ UNCHANGED limpieza
    /\ UNCHANGED cache_ilegible
    /\ UNCHANGED fnVars

\* generar_reporte_diario: the call to the AI returns.
ReporteFin ==
    /\ kbd = "reporte"
    /\ kbd' = "read"
    /\ UNCHANGED << esta_pausado, stdin_buf, typed, rx, ne, now,
                    main_pc, job, lectores, canal, despachos, saltados, efectos,
                    lineas >>
    /\ UNCHANGED gwVars
    /\ UNCHANGED anVars
    /\ UNCHANGED confirmaciones
    /\ UNCHANGED limpieza
    /\ UNCHANGED caidos
    /\ UNCHANGED cache_ilegible
    /\ UNCHANGED fnVars

\* The reader thread spawned by preguntar_commit (main.rs 236-241) reads a
\* line and sends it; the send fails when the confirmation is over.
LectorLee(k) ==
    /\ Lector(k) \in LeyendoStdin
    /\ stdin_buf # << >>
    /\ LET linea == Head(stdin_buf)
           vivo == main_pc = "commit" /\ job.id = k
       IN  /\ stdin_buf' = Tail(stdin_buf)
           /\ lectores' = lectores \ { k }
           /\ canal' = IF vivo THEN Append(canal, Normalizar(linea)) ELSE canal
           /\ lineas' = lineas \cup
                  { Leida("lector", IF vivo THEN "respuesta" ELSE "perdida") }
    /\ UNCHANGED << esta_pausado, typed, rx, ne, now, kbd, main_pc, job,
                    despachos, saltados, efectos >>
    /\ UNCHANGED gwVars
    /\ UNCHANGED anVars
    /\ UNCHANGED confirmaciones
    /\ UNCHANGED limpieza
    /\ UNCHANGED caidos
    /\ UNCHANGED cache_ilegible
    /\ UNCHANGED fnVars

\* A pause check that looks at the pause file only.
EnPausa_soloArchivo(archivo, tecla) == archivo

\* pause_file_hilo.exists() || *pausa_loop.lock().unwrap()
EnPausa(archivo, tecla) == archivo \/ tecla

\* A loop that takes the newest event of the channel.
SiguienteEvento_ultimo(q) == q[Len(q)]

\* for changed_path in rx: the oldest event of the channel.
SiguienteEvento(q) == Head(q)

\* A loop that puts the event it took while paused back at the end of the
\* channel.
TrasContinue_difiere(q) == Append(Tail(q), Head(q))

\* The channel after `continue` in the pause check (main.rs 575-577): the
\* event the iteration took is dropped.
TrasContinue(q) == Tail(q)

\* The orchestrator loop takes the next event (main.rs 573-595): pause check,
\* gate, read of the changed file, start of the analysis.
Recibir(pausaArchivo, lectura) ==
    /\ main_pc = "recv"
    /\ rx # << >>
    /\ LET ev == SiguienteEvento(rx)
       IN  /\ rx' = IF EnPausa(pausaArchivo, esta_pausado)
                     THEN TrasContinue(rx) ELSE Tail(rx)
           /\ IF EnPausa(pausaArchivo, esta_pausado)
              THEN /\ saltados' = saltados \cup
                          { [id |-> ev.id, path |-> ev.path,
                             motivo |-> IF pausaArchivo THEN "pausa_archivo" ELSE "pausa"] }
                   /\ UNCHANGED << main_pc, job, despachos, efectos >>
              ELSE IF SinTest(ev.path)
              THEN /\ saltados' = saltados \cup { [id |-> ev.id, path |-> ev.path, motivo |-> "sin_test"] }
                   /\ UNCHANGED << main_pc, job, despachos, efectos >>
              ELSE IF lectura # "ok"
              THEN /\ saltados' = saltados \cup { [id |-> ev.id, path |-> ev.path, motivo |-> lectura] }
                   /\ UNCHANGED << main_pc, job, despachos, efectos >>
              ELSE /\ main_pc' = "analizar"
                   /\ job' = [id |-> ev.id, path |-> ev.path, t |-> ev.t,
                              veredicto |-> "-", tests |-> "-"]
                   /\ despachos' = despachos \cup { ev }
                   /\ efectos' = efectos \cup { << ev.id, "ia" >> }
                   /\ UNCHANGED saltados
    /\ UNCHANGED << esta_pausado, stdin_buf, typed, ne, now, kbd,
                    lectores, canal, lineas >>
    /\ UNCHANGED gwVars
    /\ UNCHANGED anVars
    /\ UNCHANGED confirmaciones
    /\ UNCHANGED limpieza
    /\ UNCHANGED caidos
    /\ UNCHANGED cache_ilegible
    /\ UNCHANGED fnVars

\* A match that runs the tests whatever the verdict.
TrasVeredicto_siempre_tests(veredicto) == "tests"

\* match analizar_arquitectura(..): Ok(true) goes on to the tests, Ok(false)
\* and Err(e) print a line and the loop takes the next event.
TrasVeredicto(veredicto) == IF veredicto = "seguro" THEN "tests" ELSE "recv"

\* analizar_arquitectura returns (main.rs 595-620): Err, Ok(false) or Ok(true);
\* on Ok(true) the tests are started.
AnalisisFin(veredicto) ==
    /\ main_pc = "analizar"
    /\ job' = [job EXCEPT !.veredicto = veredicto]
    /\ main_pc' = TrasVeredicto(veredicto)
    /\ efectos' = IF TrasVeredicto(veredicto) = "tests"
                  THEN efectos \cup { << job.id, "tests" >> }
                  ELSE efectos
    /\ UNCHANGED << esta_pausado, stdin_buf, typed, rx, ne, now,
                    kbd, lectores, canal, despachos, saltados, lineas >>
    /\ UNCHANGED gwVars
    /\ UNCHANGED anVars
    /\ UNCHANGED confirmaciones
    /\ UNCHANGED limpieza
    /\ UNCHANGED caidos
    /\ UNCHANGED cache_ilegible
    /\ UNCHANGED fnVars

\* A test runner whose failure to start counts as a pass.
ejecutar_tests_sin_proceso_ok(npm) == IF npm = "fallo" THEN "Err" ELSE "Ok"

\* ejecutar_tests (main.rs 198-213): Err when npm cannot be spawned
\* (map_err .. ?) and when its exit status is not success, Ok otherwise.
ejecutar_tests(npm) == IF npm = "exito" THEN "Ok" ELSE "Err"

\* ejecutar_tests returns (main.rs 599-615): on Ok the documentation call to
\* the AI starts, on Err the user is asked on stdin by the loop itself.
TestsFin(npm) ==
    /\ main_pc = "tests"
    /\ job' = [job EXCEPT !.tests = npm]
    /\ IF ejecutar_tests(npm) = "Ok"
       THEN /\ main_pc' = "doc"
            /\ efectos' = efectos \cup { << job.id, "ia_doc" >> }
       ELSE /\ main_pc' = "ask_ayuda"
            /\ efectos' = efectos \cup { << job.id, "pregunta_ayuda" >> }
    /\ UNCHANGED << esta_pausado, stdin_buf, typed, rx, ne, now,
                    kbd, lectores, canal, despachos, saltados, lineas >>
    /\ UNCHANGED gwVars
    /\ UNCHANGED anVars
    /\ UNCHANGED confirmaciones
    /\ UNCHANGED limpieza
    /\ UNCHANGED caidos
    /\ UNCHANGED cache_ilegible
    /\ UNCHANGED fnVars

\* actualizar_documentacion returns (its result is dropped) and
\* generar_mensaje_commit calls the AI.
DocFin ==
    /\ main_pc = "doc"
    /\ main_pc' = "msg"
    /\ efectos' = efectos \cup { << job.id, "ia_msg" >> }
    /\ UNCHANGED << esta_pausado, stdin_buf, typed, rx, ne, now,
                    kbd, job, lectores, canal, despachos, saltados, lineas >>
    /\ UNCHANGED gwVars
    /\ UNCHANGED anVars
    /\ UNCHANGED confirmaciones
    /\ UNCHANGED limpieza
    /\ UNCHANGED caidos
    /\ UNCHANGED cache_ilegible
    /\ UNCHANGED fnVars

\* generar_mensaje_commit returns and preguntar_commit starts (main.rs
\* 230-243): prompt, new channel, reader thread spawned, recv_timeout.
MsgFin ==
    /\ main_pc = "msg"
    /\ main_pc' = "commit"
    /\ canal' = << >>
    /\ lectores' = lectores \cup { job.id }
    /\ efectos' = efectos \cup { << job.id, "pregunta_commit" >> }
    /\ UNCHANGED << esta_pausado, stdin_buf, typed, rx, ne, now,
                    kbd, job, despachos, saltados, lineas >>
    /\ UNCHANGED gwVars
    /\ UNCHANGED anVars
    /\ UNCHANGED confirmaciones
    /\ UNCHANGED limpieza
    /\ UNCHANGED caidos
    /\ UNCHANGED cache_ilegible
    /\ UNCHANGED fnVars

\* An answer that confirms whatever was typed.
Confirma_siempre(r) == TRUE

\* if r == "s"
Confirma(r) == r = "s"

\* The git commands preguntar_commit runs for an answer.
ComandosGit(r) == IF Confirma(r) THEN << "add", "commit" >> ELSE << >>

\* preguntar_commit receives the answer (main.rs 243-251).
RecibirRespuesta ==
    /\ main_pc = "commit"
    /\ canal # << >>
    /\ main_pc' = "recv"
    /\ canal' = << >>
    /\ efectos' = IF ComandosGit(Head(canal)) # << >>
                  THEN efectos \cup { << job.id, "commit" >> }
                  ELSE efectos
    /\ confirmaciones' = confirmaciones \cup
           { [id |-> job.id, r |-> Head(canal), git |-> ComandosGit(Head(canal))] }
    /\ UNCHANGED << esta_pausado, stdin_buf, typed, rx, ne, now,
                    kbd, job, lectores, despachos, saltados, lineas >>
    /\ UNCHANGED gwVars
    /\ UNCHANGED anVars
    /\ UNCHANGED limpieza
    /\ UNCHANGED caidos
    /\ UNCHANGED cache_ilegible
    /\ UNCHANGED fnVars

\* preguntar_commit: recv_timeout(30 s) expires with no answer received.
Timeout ==
    /\ main_pc = "commit"
    /\ canal = << >>
    /\ main_pc' = "recv"
    /\ confirmaciones' = confirmaciones \cup
           { [id |-> job.id, r |-> "timeout", git |-> << >>] }
    /\ UNCHANGED << esta_pausado, stdin_buf, typed, rx, ne, now,
                    kbd, job, lectores, canal, despachos, saltados, efectos,
                    lineas >>
    /\ UNCHANGED gwVars
    /\ UNCHANGED anVars
    /\ UNCHANGED limpieza
    /\ UNCHANGED caidos
    /\ UNCHANGED cache_ilegible
    /\ UNCHANGED fnVars

\* The loop reads the answer to "¿Analizar error con IA?" itself (main.rs
\* 608-614); "s" starts pedir_ayuda_test.
PrincipalLee ==
    /\ Principal \in LeyendoStdin
    /\ stdin_buf # << >>
    /\ LET linea == Head(stdin_buf)
       IN  /\ stdin_buf' = Tail(stdin_buf)
           /\ lineas' = lineas \cup { Leida("main", "respuesta") }
           /\ IF Normalizar(linea) = "s"
              THEN /\ main_pc' = "ayuda"
                   /\ efectos' = efectos \cup { << job.id, "ia_ayuda" >> }
              ELSE /\ main_pc' = "recv"
                   /\ UNCHANGED efectos
    /\ UNCHANGED << esta_pausado, typed, rx, ne, now, kbd, job, lectores, canal,
                    despachos, saltados >>
    /\ UNCHANGED gwVars
    /\ UNCHANGED anVars
    /\ UNCHANGED confirmaciones
    /\ UNCHANGED limpieza
    /\ UNCHANGED caidos
    /\ UNCHANGED cache_ilegible
    /\ UNCHANGED fnVars

\* pedir_ayuda_test returns.
AyudaFin ==
    /\ main_pc = "ayuda"
    /\ main_pc' = "recv"
    /\ UNCHANGED << esta_pausado, stdin_buf, typed, rx, ne, now,
                    kbd, job, lectores, canal, despachos, saltados, efectos,
                    lineas >>
    /\ UNCHANGED gwVars
    /\ UNCHANGED anVars
    /\ UNCHANGED confirmaciones
    /\ UNCHANGED limpieza
    /\ UNCHANGED caidos
    /\ UNCHANGED cache_ilegible
    /\ UNCHANGED fnVars

\* The loop's positions at which one of its calls to the AI is in progress
\* (analizar_arquitectura, actualizar_documentacion, generar_mensaje_commit,
\* pedir_ayuda_test), and the number of calls in progress in the process.
EstadosIA == { "analizar", "doc", "msg", "ayuda" }
LlamadasIAEnCurso ==
    (IF main_pc \in EstadosIA THEN 1 ELSE 0) + (IF kbd = "reporte" THEN 1 ELSE 0)

Next ==
    \/ \E l \in Lines : TypeLine(l)
    \/ Tick
    \/ \E kind \in EventKinds : \E f \in Paths : FsEvent(kind, f)
    \/ \E git \in Gits : TecladoLee(git)
    \/ ReporteFin
    \/ \E k \in lectores : LectorLee(k)
    \/ \E pausaArchivo \in BOOLEAN : \E lectura \in { "ok", "vacio", "error" } :
          Recibir(pausaArchivo, lectura)
    \/ \E veredicto \in { "seguro", "critico", "error" } : AnalisisFin(veredicto)
    \/ \E npm \in Npms : TestsFin(npm)
    \/ DocFin
    \/ MsgFin
    \/ RecibirRespuesta
    \/ Timeout
    \/ PrincipalLee
    \/ AyudaFin

Spec == Init /\ [][Next]_vars

\* The main thread is scheduled and the timer of recv_timeout fires: a step
\* of the loop that stays possible is taken. Nothing obliges the user to
\* type or the watcher to send.
OrquestadorJusto ==
    /\ WF_vars(Timeout)
    /\ WF_vars(RecibirRespuesta)
    /\ WF_vars(PrincipalLee)
    /\ WF_vars(AyudaFin)

LiveSpec == Init /\ [][Next]_vars /\ OrquestadorJusto

\* The largest number of times the user types p.
MaxPausas == 2

\* The program with a user who types nothing but p, the pause toggle, while
\* one tested file changes: no report and no help is ever asked for.
PausaNext ==
    \/ \E l \in { "p" } : Teclear(l, MaxPausas)
    \/ Tick
    \/ \E kind \in EventKinds : \E f \in { UsersService } : FsEvent(kind, f)
    \/ \E git \in Gits : TecladoLee(git)
    \/ \E k \in lectores : LectorLee(k)
    \/ \E pausaArchivo \in BOOLEAN : \E lectura \in { "ok", "vacio", "error" } :
          Recibir(pausaArchivo, lectura)
    \/ \E veredicto \in { "seguro", "critico", "error" } : AnalisisFin(veredicto)
    \/ \E npm \in Npms : TestsFin(npm)
    \/ DocFin
    \/ MsgFin
    \/ RecibirRespuesta
    \/ Timeout
    \/ PrincipalLee

PausaSpec == Init /\ [][PausaNext]_vars

\* The user types a line at a moment when a confirmation has ended, by its
\* answer or by its timeout, and none is pending.
TeclearTarde(l) ==
    /\ confirmaciones # { }
    /\ main_pc \notin { "commit", "ask_ayuda" }
    /\ Teclear(l, MaxLines)

\* The program with a user who types p only after a confirmation has ended
\* and while none is pending, while one tested file changes.
TardioNext ==
    \/ \E l \in { "p" } : TeclearTarde(l)
    \/ Tick
    \/ \E kind \in EventKinds : \E f \in { UsersService } : FsEvent(kind, f)
    \/ \E git \in Gits : TecladoLee(git)
    \/ \E k \in lectores : LectorLee(k)
    \/ \E pausaArchivo \in BOOLEAN : \E lectura \in { "ok", "vacio", "error" } :
          Recibir(pausaArchivo, lectura)
    \/ \E veredicto \in { "seguro", "critico", "error" } : AnalisisFin(veredicto)
    \/ \E npm \in Npms : TestsFin(npm)
    \/ DocFin
    \/ MsgFin
    \/ RecibirRespuesta
    \/ Timeout
    \/ PrincipalLee

TardioSpec == Init /\ [][TardioNext]_vars

\* The watched tree with a file named like a test and a file whose name is
\* not valid UTF-8.
ArbolCompleto == Paths \cup { UsersTest, SinUtf8 }

\* The watcher and the orchestrator loop over the whole tree, with nobody at
\* the terminal: confirmations end by their timeout and a tests-failed
\* prompt waits.
FlujoNext ==
    \/ Tick
    \/ \E kind \in EventKinds : \E f \in ArbolCompleto : FsEvent(kind, f)
    \/ \E pausaArchivo \in BOOLEAN : \E lectura \in { "ok", "vacio", "error" } :
          Recibir(pausaArchivo, lectura)
    \/ \E veredicto \in { "seguro", "critico", "error" } : AnalisisFin(veredicto)
    \/ \E npm \in Npms : TestsFin(npm)
    \/ DocFin
    \/ MsgFin
    \/ Timeout

FlujoSpec == Init /\ [][FlujoNext]_vars

\* The main thread is scheduled: when the loop is at the channel and the
\* channel holds an event, the loop takes it.
FlujoJusto ==
    WF_vars(\E pausaArchivo \in BOOLEAN : \E lectura \in { "ok", "vacio", "error" } :
                Recibir(pausaArchivo, lectura))

FlujoVivoSpec == Init /\ [][FlujoNext]_vars /\ FlujoJusto

\* ------------------------------------------- ai.rs: analizar_arquitectura
\* consultar_ia_dinamico returns Ok(respuesta) to analizar_arquitectura (ai.rs
\* 531-537): from the cache, or from a provider whose call consultar_ia
\* counts in the token and cost totals.
ConsultaOk(caso, viva) ==
    /\ an_pc = "watching"
    /\ na < MaxAnalisis
    /\ na' = na + 1
    /\ respuesta' = caso
    /\ dictamen' = "pendiente"
    /\ sugerencia' = << >>
    /\ total_tokens_used' = StatsTrasLlamada(viva, total_tokens_used, PromptAnalisis, caso.texto)
    /\ total_cost_usd' = StatsTrasLlamada(viva, total_cost_usd, PromptAnalisis, caso.texto)
    /\ an_pc' = "respondida"
    /\ UNCHANGED << stats, disco >>
    /\ UNCHANGED confirmaciones
    /\ UNCHANGED limpieza
    /\ UNCHANGED caidos
    /\ UNCHANGED cache_ilegible
    /\ UNCHANGED fnVars
    /\ UNCHANGED mainVars
    /\ UNCHANGED << use_cache, ai_configs, cache_dir, cache, gw_pc, prompt, idx,
                    last_error, resultado, llamadas, stdout, q0, prev, nq >>

\* consultar_ia_dinamico returns Err: analizar_arquitectura returns it (the ? operator).
ConsultaErr ==
    /\ an_pc = "watching"
    /\ na < MaxAnalisis
    /\ na' = na + 1
    /\ respuesta' = NoCaso
    /\ dictamen' = "error"
    /\ sugerencia' = << >>
    /\ UNCHANGED << an_pc, stats, disco >>
    /\ UNCHANGED confirmaciones
    /\ UNCHANGED limpieza
    /\ UNCHANGED caidos
    /\ UNCHANGED cache_ilegible
    /\ UNCHANGED fnVars
    /\ UNCHANGED mainVars
    /\ UNCHANGED gwVars

\* The rest of analizar_arquitectura (ai.rs 538-566): classification, stats
\* counters and their flush, suggestion file, result.
PostAnalisis(escrituraOk) ==
    /\ an_pc = "respondida"
    /\ LET es_critico == EsCritico(respuesta.texto)
           s == StatsTrasAnalisis(stats, es_critico)
       IN  /\ stats' = s
           /\ disco' = guardar(disco, EnMemoria(StatsAlGuardar(stats, s),
                                              total_tokens_used, total_cost_usd))
           /\ sugerencia' = extraer_codigo(respuesta.texto)
           /\ dictamen' = IF ~escrituraOk THEN "error"
                           ELSE IF es_critico THEN "rechazado" ELSE "aprobado"
    /\ an_pc' = "watching"
    /\ UNCHANGED << respuesta, na >>
    /\ UNCHANGED confirmaciones
    /\ UNCHANGED limpieza
    /\ UNCHANGED caidos
    /\ UNCHANGED cache_ilegible
    /\ UNCHANGED fnVars
    /\ UNCHANGED mainVars
    /\ UNCHANGED gwVars

AnalisisNext ==
    \/ \E caso \in Casos : \E viva \in BOOLEAN : ConsultaOk(caso, viva)
    \/ ConsultaErr
    \/ \E escrituraOk \in BOOLEAN : PostAnalisis(escrituraOk)

AnalisisSpec == Init /\ [][AnalisisNext]_vars

\* ------------------------------------------------------- shared predicates
\* The query in progress (or the last one) was not answered from the cache.
Miss == ~(use_cache /\ q0.entry # NoEntry)

\* The names of the first n configured providers, in list order.
Nombres(n) == [j \in 1 .. n |-> ai_configs[j].name]

\* The providers called by the query, in call order.
Llamados == [j \in 1 .. Len(llamadas) |-> llamadas[j][1]]

\* The providers the printed error lines name, in print order.
EsLineaError(l) == l.tag = "error"
Reportados ==
    LET errs == SelectSeq(stdout, EsLineaError)
    IN  [j \in 1 .. Len(errs) |-> errs[j].modelo]

\* Every configured provider was called, in order, and every call failed.
TodosFallaron ==
    /\ Llamados = Nombres(Len(ai_configs))
    /\ \A j \in 1 .. Len(llamadas) : llamadas[j][2] # "ok"

\* ------------------------------------------------------------------ claims
Returned == gw_pc = "returned"

\* C1: in a gateway query, when caching is enabled and a cache entry exists
\* for the prompt, the cached text is the result and the query issues no
\* provider network call.
C1_CacheHit ==
    (gw_pc # "idle" /\ use_cache /\ q0.entry # NoEntry)
        => /\ Returned
           /\ llamadas = << >>
           /\ resultado = Ok(q0.entry)

C1_Witness ==
    /\ Returned /\ use_cache /\ q0.entry # NoEntry
    /\ resultado = Ok(q0.entry)
    /\ ai_configs # << >>

\* The second of two consecutive queries for the same prompt, caching enabled.
SegundaConsulta == Returned /\ prev.valid /\ prev.prompt = prompt /\ use_cache

\* C2 as stated: two calls of the gateway for one prompt with caching
\* enabled issue at most one provider network call in total, and the second
\* returns the output of the first.
C2_Original ==
    SegundaConsulta
        => /\ prev.llamadas + Len(llamadas) <= 1
           /\ resultado = prev.resultado

\* C2 as amended: when the first of two consecutive calls for one prompt with
\* caching enabled succeeds and its response is in the cache when it returns
\* (the write did not fail, the cache was not cleared since), the second call
\* issues no provider network call and returns output identical to the
\* first; the first call issued at most one network call per configured
\* provider.
C2_Amended ==
    (SegundaConsulta /\ prev.resultado.ok /\ prev.stored)
        => /\ llamadas = << >>
           /\ resultado = prev.resultado
           /\ prev.llamadas <= Len(ai_configs)

C2_Witness ==
    /\ SegundaConsulta /\ prev.resultado.ok /\ prev.stored
    /\ prev.llamadas >= 2
    /\ resultado = prev.resultado

\* C3: the fallback loop calls the providers in list order; a successful call
\* is the last call of the query and its response is the result; every
\* provider called before it failed and is named by a printed error line, in
\* order; no provider after it is called.
C3_FallbackOrder ==
    /\ Llamados = Nombres(Len(llamadas))
    /\ \A j \in 1 .. Len(llamadas) :
          llamadas[j][2] = "ok"
            => /\ j = Len(llamadas)
               /\ gw_pc # "fallback"
               /\ resultado = Ok(llamadas[j][3])
               /\ Reportados = Nombres(j - 1)

C3_Witness ==
    /\ gw_pc = "save" /\ resultado.ok
    /\ Len(llamadas) = 3
    /\ llamadas[3][2] = "ok"
    /\ Reportados = << "A", "B" >>

\* C4: when every configured provider fails, the query returns an error,
\* total_tokens_used and total_cost_usd have the values they had before the
\* call, and the query wrote no cache entry.
C4_AllFailNoEffect ==
    (Returned /\ Miss /\ TodosFallaron)
        => /\ ~resultado.ok
           /\ total_tokens_used = q0.tokens
           /\ total_cost_usd = q0.cost
           /\ ~q0.wrote
           /\ cache[obtener_cache_path(prompt)] \in { q0.entry, NoEntry }

C4_Witness ==
    /\ Returned /\ Miss /\ TodosFallaron
    /\ Len(ai_configs) = 3 /\ use_cache
    /\ total_tokens_used > 0

\* The error of the last provider of the list, as the last call produced it.
ErrorDelUltimo == ErrorDe(llamadas[Len(llamadas)][2], ai_configs[Len(ai_configs)])

AgregadoSiYSoloSiTodosFallaron ==
    /\ (resultado.err.tipo = "AllProvidersFailed") <=> (Miss /\ TodosFallaron)
    /\ resultado.err.tipo = "AllProvidersFailed"
         => resultado.err.ultimo = ErrorDelUltimo

\* C5 as stated: the query returns AllProvidersFailed if and only if every
\* provider of the list was attempted and failed, and the error carried is
\* the error of the last provider of the list.
C5_Original == Returned => AgregadoSiYSoloSiTodosFallaron

\* C5 as amended: the same, for a provider list that is not empty (with an
\* empty list the query attempts nothing and returns the distinct
\* no-configuration error).
C5_Amended == (Returned /\ ai_configs # << >>) => AgregadoSiYSoloSiTodosFallaron

C5_Witness ==
    /\ Returned /\ resultado.err.tipo = "AllProvidersFailed"
    /\ Len(ai_configs) = 3
    /\ llamadas[1][2] # llamadas[3][2]


\* ---------------------------------------------------------------- C6 .. C10
\* C6: the console is awaiting an answer only while an ask of the orchestrator
\* is blocked waiting: before the ask and after it has returned (answer,
\* timeout or error) no reader started by a confirmation is waiting on stdin.
C6_FlagOnlyWhileAsking ==
    AwaitingInput => main_pc \in { "commit", "ask_ayuda" }

\* C7: every stdin line is handled in exactly one way: read while an answer is
\* awaited it is delivered as the answer and runs no command; read otherwise
\* it is run as a command and nothing is delivered as an answer.
C7_LineHandledOneWay ==
    \A l \in lineas :
        /\ l.esperando => l.efecto = "respuesta"
        /\ ~l.esperando => l.efecto = "comando"

\* C8: a single reader owns stdin: at no point are two threads reading it.
C8_SingleStdinReader ==
    Cardinality(LeyendoStdin) <= 1

\* C9: events for the same path that arrive within one quiescence window
\* dispatch exactly one job.
C9_DebounceOneJobPerWindow ==
    \A d1, d2 \in despachos :
        (d1.path = d2.path /\ d1.t = d2.t) => d1 = d2

\* C10: an event whose path has no test file under test/{base}/{base}.spec.ts
\* is skipped entirely: it is never dispatched, and no AI call, test run,
\* prompt or commit happens for it.
C10_GateSkipsUntested ==
    /\ \A d \in despachos : TestRelPath(d.path) \in DiscoTests
    /\ \A e \in efectos : \E d \in despachos : d.id = e[1]
    /\ \A s \in saltados :
          TestRelPath(s.path) \notin DiscoTests =>
              ~\E e \in efectos : e[1] = s.id

C10_Witness ==
    /\ \E s \in saltados : s.motivo = "sin_test" /\ s.path = Helper
    /\ \E e \in efectos : e[2] = "pregunta_commit"

\* --------------------------------------------------------------- C11 .. C20
\* C11: a response is classified Rejected if and only if its trimmed,
\* upper-cased text starts with CRITICO (prefix only); every other response,
\* the empty one included, is Approved.
C11_RejectionPredicate ==
    (an_pc = "watching" /\ dictamen \in { "aprobado", "rechazado" }) =>
        (dictamen = "rechazado" <=> respuesta.critico)

C11_Witness ==
    /\ an_pc = "watching"
    /\ dictamen = "rechazado"
    /\ respuesta.texto = << "\n", " ", "c", "r", "i", "t", "i", "c", "o", " " >>

\* C12 as stated: an answer of y or s triggers stage-all followed by commit;
\* any other answer, or a timeout, performs no git operation.
C12_Original ==
    \A c \in confirmaciones :
        c.git = IF c.r \in { "y", "s" } THEN << "add", "commit" >> ELSE << >>

\* C12 amended: an answer that is s once trimmed and lower-cased triggers
\* stage-all followed by commit; any other answer, y included, or a timeout,
\* performs no git operation.
C12_Amended ==
    /\ \A c \in confirmaciones :
          c.git = IF c.r = "s" THEN << "add", "commit" >> ELSE << >>
    /\ \A e \in efectos :
          e[2] = "commit" => \E c \in confirmaciones : c.id = e[1] /\ c.r = "s"

C12_Witness ==
    \E c \in confirmaciones :
        c.r = "s" /\ c.git = << "add", "commit" >> /\ << c.id, "commit" >> \in efectos

\* C13: if no line is ever typed, the commit confirmation and the
\* help-with-failing-test confirmation both return (the timeout counts as a
\* negative answer) and the loop goes on to wait for the next event.
C13_ConfirmationsTimeOut ==
    [](typed = 0) => ((main_pc \in { "commit", "ask_ayuda" }) ~> (main_pc = "recv"))

\* C14: the orchestrator never writes the pause flag, and an event it takes
\* from the queue while the flag is true starts no job: no AI call, no test
\* run, no commit prompt.
C14_PauseRespected ==
    [][ /\ (main_pc' # main_pc \/ Len(rx') < Len(rx)) => esta_pausado' = esta_pausado
        /\ (Len(rx') < Len(rx) /\ esta_pausado) =>
               /\ main_pc' = "recv"
               /\ despachos' = despachos
               /\ efectos' = efectos
               /\ confirmaciones' = confirmaciones ]_vars

C14_Witness ==
    /\ esta_pausado
    /\ \E s \in saltados : s.motivo = "pausa" /\ s.path = UsersService
    /\ despachos = { }

\* C15: AI calls are single-flight across the process: at no time are two
\* provider calls in progress, the daily report of the console included.
C15_SingleFlight ==
    LlamadasIAEnCurso <= 1

\* C16: a cache entry, once written, is replayed verbatim by every later query
\* that finds it with caching enabled, and no step other than a clear of the
\* cache removes or changes it.
C16_CacheStable ==
    [][ /\ \/ \A h \in HashValues : cache[h] # NoEntry => cache'[h] = cache[h]
           \/ cache_dir /\ ~cache_dir' /\ limpieza' = "ok"
        /\ (gw_pc = "idle" /\ gw_pc' # "idle" /\ use_cache
                /\ cache[obtener_cache_path(prompt')] # NoEntry) =>
               /\ resultado' = Ok(cache[obtener_cache_path(prompt')])
               /\ gw_pc' = "returned"
               /\ cache' = cache ]_vars

C16_Witness ==
    /\ Returned /\ use_cache /\ nq = 3
    /\ q0.entry # NoEntry /\ resultado = Ok(q0.entry)
    /\ prev.valid /\ prev.prompt # prompt /\ ~prev.resultado.ok

\* C17: a call of limpiar_cache that returns Ok leaves no cache entry for any
\* prompt, so the next query, caching enabled or not, goes to the providers;
\* without a cache directory the call returns Ok and changes nothing.
C17_ClearRemovesAll ==
    [][ /\ ((limpieza' # limpieza \/ cache_dir' # cache_dir)
                /\ limpieza' \in { "ok", "ok_sin_cache" }
                /\ gw_pc' = gw_pc /\ nq' = nq) =>
               /\ \A h \in HashValues : cache'[h] = NoEntry
               /\ ~cache_dir'
               /\ ~cache_dir => cache' = cache
        /\ (gw_pc = "idle" /\ gw_pc' # "idle" /\ ~cache_dir /\ ai_configs # << >>) =>
               gw_pc' = "fallback" ]_vars

C17_Witness ==
    /\ limpieza = "ok"
    /\ use_cache /\ gw_pc = "fallback"
    /\ prev.valid /\ prev.prompt = prompt /\ prev.resultado.ok
    /\ \A h \in HashValues : cache[h] = NoEntry

\* C18: for a response with exactly one fenced block extraer_codigo returns
\* the block's inner text, trimmed, without fence markers or language tag; for
\* a response without a fenced block it returns the text unchanged.
C18_ExtractCode ==
    an_pc = "watching" =>
        sugerencia = IF respuesta.bloques = 1 THEN respuesta.dentro ELSE respuesta.texto

\* The query in progress made a provider call that returned Ok.
LlamadaExitosa ==
    /\ gw_pc \in { "save", "returned" }
    /\ llamadas # << >>
    /\ llamadas[Len(llamadas)][2] = "ok"

\* C19 as stated: a successful provider call adds (response length + prompt
\* length) / 4, in integer arithmetic, to total_tokens_used.
C19_Original ==
    LlamadaExitosa =>
        total_tokens_used = q0.tokens + ((Len(resultado.text) + Len(prompt)) \div 4)

\* C19 amended: a successful provider call adds response length / 4 plus
\* prompt length / 4 to total_tokens_used, each quotient truncated on its own.
C19_Amended ==
    LlamadaExitosa =>
        total_tokens_used =
            q0.tokens + (Len(resultado.text) \div 4) + (Len(prompt) \div 4)

C19_Witness ==
    /\ LlamadaExitosa
    /\ Len(resultado.text) = 6 /\ Len(prompt) = 6
    /\ total_tokens_used = q0.tokens + 2

\* C20: whenever the orchestrator is back in the watching state the persisted
\* stats equal the stats in memory.
C20_StatsFlushed ==
    an_pc = "watching" => disco = EnMemoria(stats, total_tokens_used, total_cost_usd)

C20_Witness ==
    /\ an_pc = "watching"
    /\ stats.total_analisis = 2
    /\ stats.bugs_criticos_evitados = 1
    /\ total_tokens_used > 1

\* ------------------------------------------------------------- C21 .. C30
\* C21: no reachable state has a thread of the core ended by a panic: a
\* failing collaborator (git, test runner, AI gateway), a path that is not
\* valid UTF-8 or a failed lock never stops the watcher callback, the console
\* thread or the orchestrator loop.
C21_NoThreadDies == caidos = { }


\* C22: es_archivo_padre(name) is true exactly when the name ends with one of
\* the nine parent suffixes; a name ending in .spec.ts (x.service.spec.ts
\* included), in .dto.ts, or in .ts after a segment that is none of the nine
\* kinds is never a parent, whatever dots or hyphens its base has.
TiposPadre ==
    { "service", "controller", "repository", "module", "gateway", "guard",
      "interceptor", "pipe", "filter" }
TerminaEnSufijoPadre(n) ==
    Len(n) >= 3 /\ n[Len(n)] = "ts" /\ n[Len(n) - 1] \in TiposPadre
TerminaEn(n, penultimo) ==
    Len(n) >= 3 /\ n[Len(n)] = "ts" /\ n[Len(n) - 1] = penultimo
SoloTs(n) ==
    n[Len(n)] = "ts" /\ (Len(n) >= 3 => n[Len(n) - 1] \notin TiposPadre)
C22_ParentSuffixes ==
    (entrada.f = "es_archivo_padre" /\ salida # Pendiente) =>
        /\ salida[1] = TerminaEnSufijoPadre(entrada.arg)
        /\ TerminaEn(entrada.arg, "spec") => salida[1] = FALSE
        /\ TerminaEn(entrada.arg, "dto") => salida[1] = FALSE
        /\ SoloTs(entrada.arg) => salida[1] = FALSE
C22_Witness ==
    /\ entrada.arg = << "a", "b", "service", "ts" >>
    /\ salida = << TRUE >>


\* C23: within a job the test command starts only on an approved verdict,
\* the commit prompt is entered only after the tests of that job passed, and
\* a commit is executed only on an affirmative answer to that prompt; a
\* rejected verdict starts no test, leads to no commit and puts the loop back
\* at the channel.
Nuevos == efectos' \ efectos
SinPruebasNiCommit(id) ==
    \A e \in efectos' : e[1] = id => e[2] \notin { "tests", "pregunta_commit", "commit" }
C23_PipelineOrder ==
    [][ /\ \A e \in Nuevos : e[1] = job'.id
        /\ << job'.id, "tests" >> \in Nuevos =>
              main_pc = "analizar" /\ job'.veredicto = "seguro"
        /\ << job'.id, "pregunta_commit" >> \in Nuevos =>
              /\ job.veredicto = "seguro" /\ job.tests = "exito"
              /\ << job.id, "tests" >> \in efectos
        /\ << job'.id, "commit" >> \in Nuevos =>
              /\ main_pc = "commit" /\ canal # << >> /\ Head(canal) = "s"
              /\ << job.id, "pregunta_commit" >> \in efectos
        /\ (job.veredicto = "-" /\ job'.veredicto = "critico") =>
              main_pc' = "recv" /\ Nuevos = { }
        /\ job'.veredicto = "critico" => SinPruebasNiCommit(job'.id) ]_vars
C23_Witness ==
    /\ << job.id, "commit" >> \in efectos
    /\ job.veredicto = "seguro" /\ job.tests = "exito"
    /\ \E d \in despachos : d.id # job.id /\ << d.id, "tests" >> \notin efectos


\* C24: when the analysis of a job returns the gateway's error the job is
\* abandoned: no test, no prompt, nothing but its AI call, no thread lost and
\* the channel untouched; the loop is back at the channel, and the next
\* event waiting there, for the same or another path, is taken.
Procesados == { d.id : d \in despachos } \cup { x.id : x \in saltados }
ErrorIA == job.veredicto = "error"
C24_ErrorAbandonsJob ==
    /\ [][ /\ (job.veredicto = "-" /\ job'.veredicto = "error") =>
                 /\ main_pc' = "recv"
                 /\ Nuevos = { }
                 /\ rx' = rx
                 /\ caidos' = caidos
           /\ job'.veredicto = "error" =>
                 \A e \in efectos' : e[1] = job'.id => e[2] = "ia" ]_vars
    /\ \A i \in 1 .. MaxEvents :
          (main_pc = "recv" /\ ErrorIA /\ rx # << >> /\ Head(rx).id = i)
              ~> (i \in Procesados)
C24_Witness ==
    /\ main_pc = "recv"
    /\ ErrorIA
    /\ rx # << >>
    /\ Head(rx).path # job.path


\* C25: jobs are processed one at a time in arrival order: an event is taken
\* from the channel only when the loop has finished with the previous job,
\* it is the oldest event waiting, every event accepted before it has been
\* taken, and so two events for the same path are processed in the order in
\* which they arrived.
Tomados == Procesados' \ Procesados
C25_ArrivalOrder ==
    [][ /\ Tomados # { } => main_pc = "recv"
        /\ \A i \in Tomados :
              /\ \A k \in 1 .. Len(rx') : rx'[k].id > i
              /\ \A j \in 1 .. (i - 1) : j \in Procesados
        /\ \A k \in 1 .. (Len(rx') - 1) : rx'[k].id < rx'[k + 1].id
        /\ despachos' # despachos =>
              /\ main_pc = "recv"
              /\ \A d \in despachos : d.id < job'.id ]_vars
C25_Witness ==
    /\ main_pc = "analizar"
    /\ \E d \in despachos : d.path = job.path /\ d.id < job.id


\* C26: nothing is coalesced or cooled down across paths: an event for a path
\* B that arrives while an event or a job of another path A is pending is
\* never discarded because of A. Every accepted event is waiting in the
\* channel or has been taken, and an event taken without a job was skipped
\* for a reason of its own: the pause at that moment, its own missing test,
\* or its own file being empty or unreadable.
EnCanal == { rx[k].id : k \in 1 .. Len(rx) }
MotivosPropios == { "pausa_archivo", "pausa", "sin_test", "vacio", "error" }
C26_PerPath ==
    /\ EnCanal \cup Procesados = 1 .. ne
    /\ \A x \in saltados :
          /\ x.motivo \in MotivosPropios
          /\ x.motivo = "sin_test" => TestRelPath(x.path) \notin DiscoTests
    /\ \A d \in despachos : TestRelPath(d.path) \in DiscoTests
C26_Witness ==
    \E a \in despachos : \E b \in despachos :
        /\ a.path # b.path
        /\ a.id < b.id
        /\ a.t = b.t
        /\ job.id = b.id /\ main_pc = "analizar"


\* C27: no event reaches the orchestrator, and no job is started, for a path
\* the ignore policy rejects: a path outside the allow-list of extensions,
\* one containing an ignored substring, or one containing .spec., .test.,
\* _test. or .suggested.
C27_IgnoredNeverDispatched ==
    /\ \A k \in 1 .. Len(rx) : ~debe_ignorar(rx[k].path)
    /\ \A d \in despachos : ~debe_ignorar(d.path)


\* C28: cache entries are keyed by the exact prompt: a put for one prompt
\* leaves the get of every textually different prompt unchanged.
C28_KeyedByPrompt ==
    [][ (gw_pc = "save" /\ cache' # cache) =>
            \A p2 \in Prompts \ { prompt } :
                cache'[obtener_cache_path(p2)] = cache[obtener_cache_path(p2)] ]_vars


\* C29: cache I/O failures are not fatal to a query. An entry that cannot be
\* read is a miss and the query goes on to a live provider call; a cache
\* write that fails after a successful provider call is swallowed and the
\* query still returns that provider's response as Ok.
UltimaLlamada == llamadas[Len(llamadas)]
C29_CacheFailuresNonFatal ==
    [][ /\ (gw_pc = "idle" /\ gw_pc' # "idle" /\ cache_ilegible) =>
              /\ gw_pc' = "fallback"
              /\ resultado' = NoResult
        /\ (gw_pc = "save" /\ gw_pc' = "returned" /\ resultado.ok) =>
              /\ resultado' = resultado
              /\ resultado' = Ok(UltimaLlamada[3])
              /\ UltimaLlamada[2] = "ok" ]_vars
C29_Witness ==
    /\ Returned
    /\ cache_ilegible
    /\ cache[obtener_cache_path(prompt)] # NoEntry
    /\ ~q0.wrote
    /\ llamadas # << >>
    /\ resultado = Ok(UltimaLlamada[3])


\* C30: a test runner that cannot be spawned is handled like a test failure:
\* the job goes to the diagnosis offer, never to the documentation, the
\* commit message or the commit prompt, and no thread ends.
TrasTestsPasados == { "ia_doc", "ia_msg", "pregunta_commit", "commit" }
C30_SpawnFailureIsTestFailure ==
    [][ /\ (job.tests = "-" /\ job'.tests = "sin_proceso") =>
              /\ main_pc' = "ask_ayuda"
              /\ Nuevos = { << job.id, "pregunta_ayuda" >> }
              /\ caidos' = caidos
        /\ job'.tests = "sin_proceso" =>
              \A e \in efectos' : e[1] = job'.id => e[2] \notin TrasTestsPasados ]_vars
C30_Witness ==
    /\ job.tests = "sin_proceso"
    /\ main_pc = "ask_ayuda"
    /\ << job.id, "pregunta_ayuda" >> \in efectos


\* ---------------------------------------------------------------------------
\* C31 .. C38
\* ---------------------------------------------------------------------------

\* A step of limpiar_cache that is visible in the state: its outcome is
\* recorded or the cache directory disappears.
PasoLimpiar == limpieza' # limpieza \/ (cache_dir /\ ~cache_dir')

\* A gateway query of the orchestrator loop is between its cache read and
\* its return (cache write included).
ConsultaEnCurso == gw_pc # "idle"

OtrosPadres(changed, listado) ==
    { i \in 1..Len(listado) :
        /\ listado[i] # changed
        /\ is_file(listado[i])
        /\ TerminaEnSufijoPadre(listado[i]) }

\* C32: detectar_archivo_padre returns None when the changed file is itself
\* a parent file and its directory holds no other parent file, and it
\* returns Some(base name) only when a parent file other than the changed
\* file exists in the same directory.
C32_NoneForTheParentItself ==
    (entrada.f = "detectar_archivo_padre" /\ salida # Pendiente) =>
        LET otros == OtrosPadres(entrada.arg.changed, entrada.arg.dir)
        IN  /\ (TerminaEnSufijoPadre(entrada.arg.changed) /\ otros = { })
                => salida[1] = None
            /\ salida[1] # None => otros # { }


\* C33: a cache hit leaves the accounting unchanged: a gateway query that is
\* answered from the cache modifies neither total_tokens_used nor
\* total_cost_usd.
C33_HitLeavesStats ==
    (gw_pc # "idle" /\ ~Miss)
        => /\ total_tokens_used = q0.tokens
           /\ total_cost_usd = q0.cost

C33_Witness ==
    /\ Returned /\ ~Miss
    /\ llamadas = << >>
    /\ q0.tokens > 0
    /\ total_tokens_used = q0.tokens


\* The query neither used nor touched the cache: the file of its prompt is
\* as it found it (or gone with the whole directory, by a clear), and it
\* wrote nothing.
SinTocarCache ==
    /\ ~q0.wrote
    /\ cache[obtener_cache_path(prompt)] \in { q0.entry, NoEntry }

\* C34 as stated: with caching disabled a gateway query neither reads nor
\* writes the cache: it always attempts at least one live provider call, even
\* when an entry exists for the prompt, and the cache entries are after the
\* query what they were before it.
C34_Original ==
    (Returned /\ ~use_cache) => (llamadas # << >> /\ SinTocarCache)

\* C34 amended: with caching disabled a gateway query neither reads nor
\* writes the cache: when at least one provider is configured it attempts at
\* least one live provider call, even when an entry exists for the prompt
\* (with no provider configured it returns the no-configuration error
\* without a call), and no step of the query changes the set or the content
\* of the cache entries.
C34_Amended ==
    /\ []((Returned /\ ~use_cache /\ ai_configs # << >>)
            => (llamadas # << >> /\ SinTocarCache))
    /\ []((Returned /\ ~use_cache /\ ai_configs = << >>)
            => (~resultado.ok /\ resultado.err.tipo = "NoConfigs" /\ SinTocarCache))
    /\ [][(~use_cache /\ ~PasoLimpiar)
            => (cache' = cache /\ cache_dir' = cache_dir)]_vars

C34_Witness ==
    /\ Returned /\ ~use_cache
    /\ q0.entry # NoEntry
    /\ resultado.ok /\ resultado.text # q0.entry
    /\ cache[obtener_cache_path(prompt)] = q0.entry


\* The last provider call of the query in progress succeeded.
UltimaOk == llamadas # << >> /\ llamadas[Len(llamadas)][2] = "ok"

\* C35: total_tokens_used never decreases and one gateway query increases
\* it at most once: a failed provider attempt adds nothing, and a query
\* resolved by the k-th provider after k-1 failures adds the estimate of
\* that successful call alone.
C35_TokensOncePerQuery ==
    /\ [][total_tokens_used' >= total_tokens_used]_vars
    /\ [][total_tokens_used' # total_tokens_used
            => /\ total_tokens_used = q0.tokens
               /\ Len(llamadas') = Len(llamadas) + 1
               /\ llamadas'[Len(llamadas')][2] = "ok"]_vars
    /\ []((gw_pc # "idle" /\ ~UltimaOk) => total_tokens_used = q0.tokens)
    /\ []((gw_pc # "idle" /\ UltimaOk)
            => total_tokens_used =
                 q0.tokens + Tokens(prompt, llamadas[Len(llamadas)][3]))

C35_Witness ==
    /\ Returned
    /\ Len(llamadas) = 3 /\ UltimaOk
    /\ llamadas[1][2] # "ok" /\ llamadas[2][2] # "ok"
    /\ q0.tokens > 0
    /\ total_tokens_used > q0.tokens


\* The events the loop took from the channel while the pause flag was true.
TomadosEnPausa == { s \in saltados : s.motivo = "pausa" }

\* C36: events dequeued while the pause flag is true are discarded, not
\* deferred: an event the loop took while paused is never back in the
\* channel and never starts a job, also after the user has un-paused; only
\* events taken with the flag false start jobs.
C36_PausedEventsDiscarded ==
    /\ [](\A s \in TomadosEnPausa :
            /\ \A d \in despachos : d.id # s.id
            /\ \A i \in 1 .. Len(rx) : rx[i].id # s.id
            /\ job.id # s.id
            /\ \A e \in efectos : e[1] # s.id)
    /\ [][despachos' # despachos => ~esta_pausado]_vars

C36_Witness ==
    /\ ~esta_pausado
    /\ typed = 2 /\ stdin_buf = << >>
    /\ \E s \in TomadosEnPausa : \E d \in despachos : d.id > s.id


\* C37: an answer consumed by a confirmation was typed while that
\* confirmation was pending: a line typed after a confirmation has timed out
\* or completed, with none pending, is neither swallowed by a leftover
\* reader nor delivered as the answer of a later confirmation; the console
\* reads it and dispatches it as a command.
C37_LateLineIsCommand ==
    \A l \in lineas : l.por = "teclado" /\ l.efecto = "comando"


\* The step of analizar_arquitectura that follows a gateway response.
PasoTrasRespuesta == an_pc = "respondida" /\ an_pc' = "watching"

\* C38: the analysis counters stay consistent over any sequence of
\* analyses: total_analisis grows by one for every gateway response
\* obtained, live or cached, bugs_criticos_evitados grows by one exactly
\* when that response is Rejected (it starts with the CRITICO marker), a
\* failed gateway call changes neither, and bugs_criticos_evitados never
\* exceeds total_analisis.
C38_CountersConsistent ==
    /\ [][IF PasoTrasRespuesta
          THEN /\ stats'.total_analisis = stats.total_analisis + 1
               /\ stats'.bugs_criticos_evitados =
                    stats.bugs_criticos_evitados + (IF respuesta.critico THEN 1 ELSE 0)
          ELSE stats' = stats]_vars
    /\ [](stats.total_analisis + (IF an_pc = "respondida" THEN 1 ELSE 0) <= na)
    /\ [](stats.bugs_criticos_evitados <= stats.total_analisis)

C38_Witness ==
    /\ an_pc = "watching"
    /\ na = 2
    /\ dictamen = "error" /\ respuesta = NoCaso
    /\ stats.total_analisis = 1
    /\ stats.bugs_criticos_evitados = 1
    /\ total_tokens_used = 0

=============================================================================
